---- MODULE Spec2Model ----
(***************************************************************************)
(* Ribosome return codes (core_types/src/error/ribosome_error.rs) and the  *)
(* checked wasm allocation (wasm_utils/src/memory/allocation.rs).          *)
(*                                                                         *)
(* One 32-bit word carries Success, an encoded allocation or an error      *)
(* code.  The model follows one value through the conversions the code     *)
(* offers: WasmAllocation::new, the wrapping of a word as an encoded       *)
(* allocation, the three constructors of a return code, encoding to bits,  *)
(* decoding from bits, allocation_or_err, and the textual labels.          *)
(***************************************************************************)
EXTENDS Integers, Sequences, FiniteSets

VARIABLES args, region, alloc, code, wire, wireSrc, decoded, reencoded,
          result, label, parsed

vars == <<args, region, alloc, code, wire, wireSrc, decoded, reencoded,
          result, label, parsed>>

----------------------------------------------------------------------------
(* Bounds of the sampled input space.                                      *)

\* upper halves 0..MaxTag: 0, the ten error ordinals, and unknown ordinals
MaxTag == 12
\* lower halves / lengths 0..MaxLen
MaxLen == 2
\* the 16-bit values 65535-TopSpan..65535 are sampled as well
TopSpan == 1

----------------------------------------------------------------------------
(* Integer widths.                                                         *)

\* pub type RibosomeCodeBits = u16
CodeBitsWidth == 16

U16(x) == x % (2 ^ CodeBitsWidth)
U16Max == (2 ^ CodeBitsWidth) - 1

\* A RibosomeEncodingBits (u32) is kept as its two 16-bit halves <<upper,
\* lower>>: TLC's integers stop at 2^31 - 1, below the largest word.
\* Two words are the same bits exactly when both halves agree.
Zero == <<0, 0>>

\* memory::MEMORY_INT_MAX, the maximum in the MemoryBits (u32) domain
MEMORY_INT_MAX == 65536

Tags == (0 .. MaxTag) \cup ((U16Max - TopSpan) .. U16Max)
Lens == (0 .. MaxLen) \cup ((U16Max - TopSpan) .. U16Max)

\* bits_n_pieces::u32_split_bits: (upper 16 bits, lower 16 bits)
u32_split_bits(i) == <<i[1], i[2]>>

\* the packing of an accepted region: offset in the upper half, length in
\* the lower half
u32_merge_bits(hi, lo) == <<U16(hi), U16(lo)>>

Words == {u32_merge_bits(h, l) : h \in Tags, l \in Lens}

----------------------------------------------------------------------------
(* RibosomeErrorCode                                                       *)

RibosomeErrorCode ==
    << "Unspecified", "ArgumentDeserializationFailed", "OutOfMemory",
       "ReceivedWrongActionResult", "CallbackFailed",
       "RecursiveCallForbidden", "ResponseSerializationFailed",
       "NotAnAllocation", "ZeroSizedAllocation", "UnknownEntryType" >>

ErrorCodes == {RibosomeErrorCode[n] : n \in 1 .. Len(RibosomeErrorCode)}

Ordinal(c) == CHOOSE n \in 1 .. Len(RibosomeErrorCode) : RibosomeErrorCode[n] = c

\* the #[repr(u32)] discriminant: ordinal << 16
Discriminant(c) == <<U16(Ordinal(c)), 0>>

\* the value from_code_int(0) stands for: unreachable!() faults
Unreachable == "unreachable!()"

\* from_code_int with the arm for 10 forgotten
from_code_int_NoTen(n) ==
    CASE n = 0 -> Unreachable
      [] n = 2 -> "ArgumentDeserializationFailed"
      [] n = 3 -> "OutOfMemory"
      [] n = 4 -> "ReceivedWrongActionResult"
      [] n = 5 -> "CallbackFailed"
      [] n = 6 -> "RecursiveCallForbidden"
      [] n = 7 -> "ResponseSerializationFailed"
      [] n = 8 -> "NotAnAllocation"
      [] n = 9 -> "ZeroSizedAllocation"
      [] OTHER -> "Unspecified"

\* from_code_int faulting on every unknown code instead of falling back
from_code_int_Strict(n) ==
    CASE n = 0 -> Unreachable
      [] n = 1 -> "Unspecified"
      [] n = 2 -> "ArgumentDeserializationFailed"
      [] n = 3 -> "OutOfMemory"
      [] n = 4 -> "ReceivedWrongActionResult"
      [] n = 5 -> "CallbackFailed"
      [] n = 6 -> "RecursiveCallForbidden"
      [] n = 7 -> "ResponseSerializationFailed"
      [] n = 8 -> "NotAnAllocation"
      [] n = 9 -> "ZeroSizedAllocation"
      [] n = 10 -> "UnknownEntryType"
      [] OTHER -> Unreachable

from_code_int(n) ==
    CASE n = 0 -> Unreachable
      [] n = 2 -> "ArgumentDeserializationFailed"
      [] n = 3 -> "OutOfMemory"
      [] n = 4 -> "ReceivedWrongActionResult"
      [] n = 5 -> "CallbackFailed"
      [] n = 6 -> "RecursiveCallForbidden"
      [] n = 7 -> "ResponseSerializationFailed"
      [] n = 8 -> "NotAnAllocation"
      [] n = 9 -> "ZeroSizedAllocation"
      [] n = 10 -> "UnknownEntryType"
      [] OTHER -> "Unspecified"

as_str(c) ==
    CASE c = "Unspecified" -> "Unspecified"
      [] c = "ArgumentDeserializationFailed" -> "Argument deserialization failed"
      [] c = "OutOfMemory" -> "Out of memory"
      [] c = "ReceivedWrongActionResult" -> "Received wrong action result"
      [] c = "CallbackFailed" -> "Callback failed"
      [] c = "RecursiveCallForbidden" -> "Recursive call forbidden"
      [] c = "ResponseSerializationFailed" -> "Response serialization failed"
      [] c = "NotAnAllocation" -> "Not an allocation"
      [] c = "ZeroSizedAllocation" -> "Zero-sized allocation"
      [] c = "UnknownEntryType" -> "Unknown entry type"

\* Err(HolochainError::ErrorGeneric("Unknown RibosomeErrorCode"))
UnknownLabel == [ok |-> FALSE, code |-> "Unknown RibosomeErrorCode"]

from_str(s) ==
    CASE s = "Unspecified" -> [ok |-> TRUE, code |-> "Unspecified"]
      [] s = "Argument deserialization failed" ->
            [ok |-> TRUE, code |-> "ArgumentDeserializationFailed"]
      [] s = "Out of memory" -> [ok |-> TRUE, code |-> "OutOfMemory"]
      [] s = "Received wrong action result" ->
            [ok |-> TRUE, code |-> "ReceivedWrongActionResult"]
      [] s = "Callback failed" -> [ok |-> TRUE, code |-> "CallbackFailed"]
      [] s = "Recursive call forbidden" ->
            [ok |-> TRUE, code |-> "RecursiveCallForbidden"]
      [] s = "Response serialization failed" ->
            [ok |-> TRUE, code |-> "ResponseSerializationFailed"]
      [] s = "Not an allocation" -> [ok |-> TRUE, code |-> "NotAnAllocation"]
      [] s = "Zero-sized allocation" ->
            [ok |-> TRUE, code |-> "ZeroSizedAllocation"]
      [] s = "Unknown entry type" -> [ok |-> TRUE, code |-> "UnknownEntryType"]
      [] OTHER -> UnknownLabel

\* strings handed to the parser: every label, and strings that are none
Texts == {as_str(c) : c \in ErrorCodes} \cup
         {"Success", "OutOfMemory", "out of memory", ""}

----------------------------------------------------------------------------
(* RibosomeReturnCode                                                      *)

NoCode == [tag |-> "None", bits |-> Zero, code |-> ""]
Success == [tag |-> "Success", bits |-> Zero, code |-> ""]
Allocation(w) == [tag |-> "Allocation", bits |-> w, code |-> ""]
Failure(c) == [tag |-> "Failure", bits |-> Zero, code |-> c]

\* From<RibosomeReturnCode> for RibosomeEncodingBits; the cast of a
\* discriminant through i32 to u32 keeps its bits
Encode(rc) ==
    CASE rc.tag = "Success" -> Zero
      [] rc.tag = "Allocation" -> rc.bits
      [] rc.tag = "Failure" -> Discriminant(rc.code)

\* decode without the test for the word 0
DecodeNoZeroTest(i) ==
    LET split == u32_split_bits(i)
    IN  IF split[2] = 0
        THEN Failure(from_code_int(split[1]))
        ELSE Allocation(i)

\* decode rebuilding the allocation word and losing its length
DecodeLossy(i) ==
    IF i = Zero
    THEN Success
    ELSE LET split == u32_split_bits(i)
         IN  IF split[2] = 0
             THEN Failure(from_code_int(split[1]))
             ELSE Allocation(u32_merge_bits(split[1], 1))

\* From<RibosomeEncodingBits> for RibosomeReturnCode
Decode(i) ==
    IF i = Zero
    THEN Success
    ELSE LET split == u32_split_bits(i)
         IN  IF split[2] = 0
             THEN Failure(from_code_int(split[1]))
             ELSE Allocation(i)

NoResult == [ok |-> FALSE, bits |-> Zero, err |-> "None"]

\* allocation_or_err handing out every word as an allocation
allocation_or_err_Trusting(rc) ==
    CASE rc.tag = "Allocation" -> [ok |-> TRUE, bits |-> rc.bits, err |-> ""]
      [] rc.tag = "Success" -> [ok |-> TRUE, bits |-> Zero, err |-> ""]
      [] rc.tag = "Failure" ->
            [ok |-> TRUE, bits |-> Encode(rc), err |-> ""]

\* RibosomeReturnCode::allocation_or_err
allocation_or_err(rc) ==
    CASE rc.tag = "Allocation" -> [ok |-> TRUE, bits |-> rc.bits, err |-> ""]
      [] rc.tag = "Success" ->
            [ok |-> FALSE, bits |-> Zero, err |-> "ZeroSizedAllocation"]
      [] rc.tag = "Failure" -> [ok |-> FALSE, bits |-> Zero, err |-> rc.code]

----------------------------------------------------------------------------
(* WasmAllocation                                                          *)

NoRegion == [tag |-> "None", offset |-> 0, length |-> 0]
NoArgs == [given |-> FALSE, offset |-> 0, length |-> 0]

WasmAllocation_max == MEMORY_INT_MAX

\* new with >= in place of > in the bounds test
WasmAllocation_new_Inclusive(offset, length) ==
    IF (offset + length) >= WasmAllocation_max
    THEN [tag |-> "OutOfBounds", offset |-> 0, length |-> 0]
    ELSE IF length = 0
         THEN [tag |-> "ZeroLength", offset |-> 0, length |-> 0]
         ELSE [tag |-> "Ok", offset |-> offset, length |-> length]

\* new without the zero-length test
WasmAllocation_new_NoZeroTest(offset, length) ==
    IF (offset + length) > WasmAllocation_max
    THEN [tag |-> "OutOfBounds", offset |-> 0, length |-> 0]
    ELSE [tag |-> "Ok", offset |-> offset, length |-> length]

\* WasmAllocation::new: the sum of two u16 is taken in MemoryBits (u32),
\* where it cannot wrap
WasmAllocation_new(offset, length) ==
    IF (offset + length) > WasmAllocation_max
    THEN [tag |-> "OutOfBounds", offset |-> 0, length |-> 0]
    ELSE IF length = 0
         THEN [tag |-> "ZeroLength", offset |-> 0, length |-> 0]
         ELSE [tag |-> "Ok", offset |-> offset, length |-> length]

NoAlloc == [src |-> "none", bits |-> Zero]

----------------------------------------------------------------------------
(* The state machine.                                                      *)

Init ==
    /\ args = NoArgs
    /\ region = NoRegion
    /\ alloc = NoAlloc
    /\ code = NoCode
    /\ wire = Zero
    /\ wireSrc = "none"
    /\ decoded = NoCode
    /\ reencoded = [some |-> FALSE, bits |-> Zero]
    /\ result = NoResult
    /\ label = [some |-> FALSE, text |-> ""]
    /\ parsed = [some |-> FALSE, ok |-> FALSE, code |-> ""]

NoReencoded == [some |-> FALSE, bits |-> Zero]
NoLabel == [some |-> FALSE, text |-> ""]
NoParsed == [some |-> FALSE, ok |-> FALSE, code |-> ""]

ResetText == label' = NoLabel /\ parsed' = NoParsed
ResetAfterWire == decoded' = NoCode /\ reencoded' = NoReencoded /\ result' = NoResult
ResetWire == wire' = Zero /\ wireSrc' = "none" /\ ResetAfterWire

\* WasmAllocation::new(offset, length)
New(offset, length) ==
    /\ args' = [given |-> TRUE, offset |-> offset, length |-> length]
    /\ region' = WasmAllocation_new(offset, length)
    /\ alloc' = NoAlloc
    /\ code' = NoCode
    /\ ResetWire
    /\ ResetText

\* the encoded allocation of an accepted region
EncodeRegion ==
    /\ region.tag = "Ok"
    /\ alloc' = [src |-> "region",
                 bits |-> u32_merge_bits(region.offset, region.length)]
    /\ code' = NoCode
    /\ ResetWire
    /\ UNCHANGED <<args, region, label, parsed>>

\* From<RibosomeEncodingBits> for RibosomeEncodedAllocation
AllocationFromBits(i) ==
    /\ alloc' = [src |-> "bits", bits |-> i]
    /\ args' = NoArgs
    /\ region' = NoRegion
    /\ code' = NoCode
    /\ ResetWire
    /\ ResetText

\* RibosomeReturnCode::Allocation(allocation)
MkAllocation ==
    /\ alloc.src # "none"
    /\ code' = Allocation(alloc.bits)
    /\ ResetWire
    /\ UNCHANGED <<args, region, alloc, label, parsed>>

\* RibosomeReturnCode::Success
MkSuccess ==
    /\ code' = Success
    /\ args' = NoArgs
    /\ region' = NoRegion
    /\ alloc' = NoAlloc
    /\ ResetWire
    /\ ResetText

\* RibosomeReturnCode::from_error(err_code)
FromError(c) ==
    /\ code' = Failure(c)
    /\ args' = NoArgs
    /\ region' = NoRegion
    /\ alloc' = NoAlloc
    /\ ResetWire
    /\ ResetText

\* RibosomeEncodingBits::from(return_code)
DoEncode ==
    /\ code.tag # "None"
    /\ wire' = Encode(code)
    /\ wireSrc' = "encode"
    /\ ResetAfterWire
    /\ UNCHANGED <<args, region, alloc, code, label, parsed>>

\* a word arriving from the other side of the boundary
Receive(i) ==
    /\ wire' = i
    /\ wireSrc' = "received"
    /\ args' = NoArgs
    /\ region' = NoRegion
    /\ alloc' = NoAlloc
    /\ code' = NoCode
    /\ ResetAfterWire
    /\ ResetText

\* RibosomeReturnCode::from(bits)
DoDecode ==
    /\ wireSrc # "none"
    /\ decoded' = Decode(wire)
    /\ reencoded' = NoReencoded
    /\ result' = NoResult
    /\ UNCHANGED <<args, region, alloc, code, wire, wireSrc, label, parsed>>

\* RibosomeEncodingBits::from(decoded return code)
Reencode ==
    /\ decoded.tag # "None"
    /\ decoded.code # Unreachable
    /\ reencoded' = [some |-> TRUE, bits |-> Encode(decoded)]
    /\ UNCHANGED <<args, region, alloc, code, wire, wireSrc, decoded, result,
                   label, parsed>>

\* decoded.allocation_or_err()
AllocationOrErr ==
    /\ decoded.tag # "None"
    /\ result' = allocation_or_err(decoded)
    /\ UNCHANGED <<args, region, alloc, code, wire, wireSrc, decoded,
                   reencoded, label, parsed>>

\* err_code.as_str() of the Failure at hand
AsStr ==
    /\ code.tag = "Failure"
    /\ label' = [some |-> TRUE, text |-> as_str(code.code)]
    /\ parsed' = NoParsed
    /\ UNCHANGED <<args, region, alloc, code, wire, wireSrc, decoded,
                   reencoded, result>>

\* a string from outside
Text(s) ==
    /\ label' = [some |-> TRUE, text |-> s]
    /\ parsed' = NoParsed
    /\ args' = NoArgs
    /\ region' = NoRegion
    /\ alloc' = NoAlloc
    /\ code' = NoCode
    /\ ResetWire

\* RibosomeErrorCode::from_str(label)
FromStr ==
    /\ label.some
    /\ parsed' = LET r == from_str(label.text)
                  IN  [some |-> TRUE, ok |-> r.ok, code |-> r.code]
    /\ UNCHANGED <<args, region, alloc, code, wire, wireSrc, decoded,
                   reencoded, result, label>>

Next ==
    \/ \E offset \in Tags, length \in Lens : New(offset, length)
    \/ EncodeRegion
    \/ \E i \in Words : AllocationFromBits(i)
    \/ MkAllocation
    \/ MkSuccess
    \/ \E c \in ErrorCodes : FromError(c)
    \/ DoEncode
    \/ \E i \in Words : Receive(i)
    \/ DoDecode
    \/ Reencode
    \/ AllocationOrErr
    \/ AsStr
    \/ \E s \in Texts : Text(s)
    \/ FromStr

Spec == Init /\ [][Next]_vars

----------------------------------------------------------------------------
(* The properties.                                                         *)

\* The word is a region's packing exactly when WasmAllocation::new accepts
\* its halves as (offset, length): the packing loses nothing.
FromAcceptedRegion(w) ==
    WasmAllocation_new(u32_split_bits(w)[1], u32_split_bits(w)[2]).tag = "Ok"

KnownOrdinals == 1 .. Len(RibosomeErrorCode)

\* C1: decoding the word produced by encoding a constructed return code x
\* (Success, any Failure(c), any Allocation, also one wrapping a raw word)
\* yields x again.
C1_RoundTrip ==
    (code.tag # "None" /\ wireSrc = "encode" /\ decoded.tag # "None")
        => decoded = code

\* C2 as stated: for every word w without exception, encoding the return
\* code decoded from w gives back the bits of w.
C2_ReencodeEveryWord ==
    reencoded.some => reencoded.bits = wire

\* C2 as amended: encoding the return code decoded from w gives back w when
\* the lower half of w is non-zero or its upper half is in 0..=10; when the
\* lower half is 0 and the upper half is above 10, it gives 1 << 16, the
\* word of Unspecified.
C2_ReencodeKnownWords ==
    reencoded.some =>
        IF u32_split_bits(wire)[2] # 0
              \/ u32_split_bits(wire)[1] \in {0} \cup KnownOrdinals
        THEN reencoded.bits = wire
        ELSE reencoded.bits = <<1, 0>>

C2_Witness ==
    /\ wireSrc = "received"
    /\ u32_split_bits(wire)[2] = 0
    /\ u32_split_bits(wire)[1] = Len(RibosomeErrorCode) + 1
    /\ reencoded.some
    /\ reencoded.bits = <<1, 0>>

\* C3: decoding is total: every word decodes to exactly one of Success,
\* Allocation and Failure with one of the ten codes, and decoding never
\* reaches from_code_int(0), the unreachable!() arm.
C3_DecodeTotal ==
    (wireSrc # "none" /\ decoded.tag # "None") =>
        /\ decoded.tag \in {"Success", "Allocation", "Failure"}
        /\ decoded.code # Unreachable
        /\ decoded.tag = "Failure" <=> decoded.code \in ErrorCodes
        /\ decoded.tag = "Success" <=> wire = Zero

C3_Witness ==
    /\ wireSrc = "received"
    /\ wire # Zero
    /\ u32_split_bits(wire)[2] = 0
    /\ decoded.tag = "Failure"

\* C4: WasmAllocation::new(offset, length) is OutOfBounds exactly when
\* offset + length exceeds WasmAllocation::max(), whatever the length;
\* new(max - 1, 2) fails and new(max - 2, 2) succeeds.
C4_OutOfBoundsIff ==
    args.given =>
        /\ region.tag = "OutOfBounds"
              <=> args.offset + args.length > WasmAllocation_max
        /\ (args.offset = WasmAllocation_max - 1 /\ args.length = 2)
              => region.tag = "OutOfBounds"
        /\ (args.offset = WasmAllocation_max - 2 /\ args.length = 2)
              => region = [tag |-> "Ok", offset |-> args.offset, length |-> 2]

C4_Witness ==
    /\ args.given
    /\ args.offset = WasmAllocation_max - 1
    /\ args.length = 2
    /\ region.tag = "OutOfBounds"

\* C5: WasmAllocation::new(offset, 0) fails with ZeroLength for every
\* offset, offset 0 and the largest offset included.
C5_ZeroLength ==
    (args.given /\ args.length = 0) => region.tag = "ZeroLength"

C5_Witness ==
    /\ args.given
    /\ args.length = 0
    /\ args.offset = U16Max
    /\ region.tag = "ZeroLength"

\* C6 as stated: a word whose lower half is 0 and whose upper half is any
\* 16-bit value outside 1..=10 decodes to Failure(Unspecified).
C6_UnknownCodeAnyTag ==
    (decoded.tag # "None"
        /\ u32_split_bits(wire)[2] = 0
        /\ u32_split_bits(wire)[1] \notin KnownOrdinals)
        => decoded = Failure("Unspecified")

\* C6 as amended: a word whose lower half is 0 and whose upper half is a
\* non-zero 16-bit value outside 1..=10 decodes to Failure(Unspecified); the
\* upper half 0 makes the word 0, which decodes to Success.
C6_UnknownCodeNonZeroTag ==
    (decoded.tag # "None" /\ u32_split_bits(wire)[2] = 0) =>
        /\ u32_split_bits(wire)[1] \notin {0} \cup KnownOrdinals
              => decoded = Failure("Unspecified")
        /\ u32_split_bits(wire)[1] = 0 => decoded = Success

C6_Witness ==
    /\ wireSrc = "received"
    /\ wire = <<U16Max, 0>>
    /\ decoded = Failure("Unspecified")

\* C7: the word packing an accepted (offset, length) has a non-zero lower
\* half, and decoding it yields Allocation carrying that same word.
C7_RegionDecodesAsAllocation ==
    alloc.src = "region" =>
        /\ region.tag = "Ok"
        /\ u32_split_bits(alloc.bits)[2] # 0
        /\ (wireSrc = "encode" /\ decoded.tag # "None")
              => (wire = alloc.bits /\ decoded = Allocation(alloc.bits))

C7_Witness ==
    /\ alloc.src = "region"
    /\ args.offset = U16Max
    /\ args.length = 1
    /\ wireSrc = "encode"
    /\ decoded = Allocation(<<U16Max, 1>>)

\* C8: for each of the ten error codes c, encoding Failure(c) gives the word
\* ordinal << 16, decoding it gives Failure(c) again, and parsing the
\* label of c gives c.
C8_ErrorCodeRoundTrip ==
    code.tag = "Failure" =>
        /\ wireSrc = "encode" => wire = <<Ordinal(code.code), 0>>
        /\ (wireSrc = "encode" /\ decoded.tag # "None") => decoded = code
        /\ (label.some /\ parsed.some)
              => (parsed.ok /\ parsed.code = code.code)

C8_Witness ==
    /\ code = Failure("UnknownEntryType")
    /\ wireSrc = "encode"
    /\ decoded = code
    /\ label.some
    /\ parsed.some
    /\ parsed.code = "UnknownEntryType"

\* C9: every Allocation return code built by the constructors and
\* conversions (not by decode) carries a word derived from a region that
\* WasmAllocation::new accepts.
C9_AllocationOnlyFromRegion ==
    code.tag = "Allocation" => FromAcceptedRegion(code.bits)

\* C10: allocation_or_err of a decoded word w is Ok, carrying w, exactly
\* when the lower half of w is non-zero; for w = 0 it is the error
\* ZeroSizedAllocation, and for a Failure word it is the decoded code.
C10_AllocationOrErr ==
    result # NoResult =>
        /\ result.ok <=> u32_split_bits(wire)[2] # 0
        /\ result.ok => result.bits = wire
        /\ wire = Zero => result.err = "ZeroSizedAllocation"
        /\ decoded.tag = "Failure"
              => (~result.ok /\ result.err = decoded.code
                    /\ result.err = from_code_int(u32_split_bits(wire)[1]))

C10_Witness ==
    /\ wireSrc = "received"
    /\ wire = <<3, 0>>
    /\ ~result.ok
    /\ result.err = "OutOfMemory"

====
